---- MODULE Spec2Model ----
(***************************************************************************)
(* Model of the futures tranche engine, live/futures_adapter.py, of the    *)
(* order client it drives, live/ib_order.py, and of the portfolio summary  *)
(* of live/monitor.py.                                                     *)
(*                                                                         *)
(* Prices are fixed-point integers in units of a quarter dollar, so that   *)
(* TICK_SIZE (0.5 USD) is 2 units and a configured price can fall exactly  *)
(* half way between two ticks.  None is modelled by -1.                    *)
(*                                                                         *)
(* The market-data task is cut at its await points: the websocket receive  *)
(* (pc = "idle"), the open-order fetch of _manage_core (pc = "core_fetch") *)
(* and the open-order fetch of _reconcile_tranche (pc = "reconcile").      *)
(* submit_order, cancel_order and modify_order are synchronous calls and   *)
(* are executed inside the step that follows the fetch.  The position      *)
(* poller may run between any two steps.                                   *)
(***************************************************************************)
EXTENDS Integers, Sequences, FiniteSets, TLC

None == -1

\* ------------------------------------------------------------------------
\* Bounds of the model
\* ------------------------------------------------------------------------
MaxTicks == 2          \* ticker messages delivered in one behaviour
MaxFail == 1           \* failed requests in one behaviour
MaxPrice == 64         \* largest price handed to the tick rounding on its own
MaxBars == 16          \* longest bar sequence handed to _atr14 on its own
MaxBufTicks == 4       \* ticks fed to the bar aggregator in one behaviour
MaxMsgs == 2           \* messages delivered by the stream in one behaviour
MaxRows == 3           \* rows of a position report handed to the poller on its own
MaxDepth == 40         \* frames the interpreter allows on the call stack
                       \* (sys.getrecursionlimit(), 1000 by default)

\* ------------------------------------------------------------------------
\* Program constants
\* ------------------------------------------------------------------------
TICK_SIZE == 2         \* 0.5 USD in quarter-dollar units
BarsMaxLen == 15       \* deque(maxlen=15)
AtrWindow == 15        \* bars needed by _atr14 and by the trail guard
AtrPeriod == 14        \* true ranges averaged by _atr14
RETRY_MAX == 3         \* sends of one POST by IBClient._post

\* ------------------------------------------------------------------------
\* Small helpers
\* ------------------------------------------------------------------------
\* F applied to the value of v, v being evaluated once
With(v, F(_)) == CHOOSE r \in {F(x) : x \in {v}} : TRUE

Abs(x) == IF x < 0 THEN -x ELSE x

Max2(a, b) == IF a >= b THEN a ELSE b

Min2(a, b) == IF a <= b THEN a ELSE b

Range(s) == {s[i] : i \in DOMAIN s}

\* Python's round(n / d) for non-negative n and positive d: nearest
\* integer, ties to the even one.
PyRound(n, d) ==
    LET q == n \div d
        r == n % d
    IN  IF 2 * r < d THEN q
        ELSE IF 2 * r > d THEN q + 1
        ELSE IF q % 2 = 0 THEN q ELSE q + 1

\* the rounding without the multiplication back to a price
RoundToTickUnscaled(p) == PyRound(p, TICK_SIZE)

\* round(p / TICK_SIZE) * TICK_SIZE
RoundToTick(p) == PyRound(p, TICK_SIZE) * TICK_SIZE

\* ------------------------------------------------------------------------
\* Rules document (yaml.safe_load of config/futures_rules.yaml)
\* ------------------------------------------------------------------------
\* One entry of cfg["tranches"].  has_oco / has_initial say whether the
\* "oco" block, resp. "trailing_stop.initial", is present in the document.
Tranche(name, status, qty, has_oco, oco, has_initial, initial, targets) ==
    [name |-> name, status |-> status, qty |-> qty,
     has_oco |-> has_oco, oco |-> oco,
     has_initial |-> has_initial, initial |-> initial,
     hard_targets |-> targets]

NoOco == [tp1 |-> None, tp2 |-> None, stop |-> None]

ScalpCfg(status, has_oco) ==
    Tranche("scalp_add", status, 2, has_oco,
            IF has_oco THEN [tp1 |-> 9, tp2 |-> 6, stop |-> 20] ELSE NoOco,
            FALSE, None, <<>>)

CoreCfg(status, has_initial) ==
    Tranche("core_runner", status, 3, FALSE, NoOco,
            has_initial, IF has_initial THEN 13 ELSE None, <<4>>)

Rules(has_limit, scalp, core) ==
    [has_position_limit |-> has_limit,
     position_limit |-> IF has_limit THEN 4 ELSE None,
     tranches |-> <<scalp, core>>]

RulesSet ==
    { Rules(TRUE, ScalpCfg("active", TRUE), CoreCfg("active", TRUE)),
      Rules(TRUE, ScalpCfg("active", TRUE), CoreCfg("inactive", TRUE)),
      Rules(TRUE, ScalpCfg("inactive", TRUE), CoreCfg("active", TRUE)),
      Rules(FALSE, ScalpCfg("active", TRUE), CoreCfg("active", TRUE)),
      Rules(TRUE, ScalpCfg("active", FALSE), CoreCfg("active", TRUE)),
      Rules(TRUE, ScalpCfg("active", TRUE), CoreCfg("active", FALSE)) }

\* Every field the engine reads is present in the document.
TrancheComplete(tr) ==
    \/ tr.status # "active"
    \/ tr.name = "scalp_add" /\ tr.has_oco
    \/ tr.name = "core_runner" /\ tr.has_initial

RulesComplete(c) ==
    /\ c.has_position_limit
    /\ \A i \in DOMAIN c.tranches : TrancheComplete(c.tranches[i])

\* ------------------------------------------------------------------------
\* Inputs
\* ------------------------------------------------------------------------
PriceSet == {8, 16}            \* last-trade prices of ticker messages
DtSet == {0, 14}               \* minutes elapsed between two ticks
PosSet == {0, 3, 5}            \* net contracts reported by the broker

\* An open order as list_orders reports it.
Order(id, px, ro, qty, typ, side) ==
    [orderId |-> id, price |-> px, reduceOnly |-> ro, quantity |-> qty,
     orderType |-> typ, side |-> side]

\* Orders that may rest at the broker when the engine starts: a reduce-only
\* order at a price no tranche wants, a reduce-only order at the core
\* tranche's initial stop price, and an entry order (not reduce-only).
InitOrderKinds ==
    { [price |-> 18, reduceOnly |-> TRUE,  orderType |-> "STOP"],
      [price |-> 12, reduceOnly |-> TRUE,  orderType |-> "STOP"],
      [price |-> 8,  reduceOnly |-> FALSE, orderType |-> "LIMIT"] }

InitOrder(i, k) == Order(i, k.price, k.reduceOnly, 2, k.orderType, "BUY")

\* The broker's book at start-up: empty, one such order, or two reduce-only
\* orders left at one price (as two legs of equal price, or a resubmission
\* after a failed listing, leave them).
InitBooks ==
    {<<>>} \cup {<<InitOrder(1, k)>> : k \in InitOrderKinds}
           \cup {<<InitOrder(1, k), InitOrder(2, k)>> :
                    k \in {j \in InitOrderKinds : j.price = 18}}

\* A row of the position report: does its symbol start with the contract,
\* and its qty; a qty of None is one that int() does not accept.
RowSet == [match : BOOLEAN, qty : PosSet \cup {None}]

\* Position reports: no row, one row, a foreign row before the contract's
\* row, and two rows of the contract.
RowsSet ==
    {<<>>, <<[match |-> FALSE, qty |-> 5]>>,
     <<[match |-> FALSE, qty |-> 5], [match |-> TRUE, qty |-> 3]>>,
     <<[match |-> TRUE, qty |-> 3], [match |-> TRUE, qty |-> 0]>>}
    \cup {<<r>> : r \in {x \in RowSet : x.match}}

\* ------------------------------------------------------------------------
\* State
\* ------------------------------------------------------------------------
VARIABLES
    phase,           \* "new", "running" (constructed), "failed" (__init__ raised)
    cfg,             \* self.cfg / self.tranches / self.position_limit
    pos,             \* self.pos
    price,           \* self.price
    bars_1m,         \* self._bars_1m
    last_bar_min,    \* self._last_bar_min
    core_stop_id,    \* self._core_stop_id
    core_stop_px,    \* self._core_stop_px
    legs_required,   \* self.legs_required
    pc,              \* await point of the market-data task
    ti,              \* index of the tranche being managed in _evaluate_tranches
    frame,           \* arguments of the suspended _reconcile_tranche call
    orders,          \* the broker's open orders, in listing order
    calls,           \* requests issued by the current tick's evaluation
    pass,            \* the last reconciliation pass: snapshot, legs, calls
    ev,              \* outcome of the current tick's evaluation
    nticks,          \* ticker messages handled so far
    nfail,           \* failed requests so far
    poll,            \* outcome of the latest iteration of _poll_positions
    probe            \* a helper applied on its own: its argument and result

vars == <<phase, cfg, pos, price, bars_1m, last_bar_min, core_stop_id,
          core_stop_px, legs_required, pc, ti, frame, orders, calls,
          pass, ev, nticks, nfail, poll, probe>>

NoFrame == [tr_name |-> "", want_prices |-> <<>>, qty |-> 0, side |-> ""]

NoProbe == [fn |-> "none", arg |-> None, done |-> FALSE, res |-> None]

NoPass == [valid |-> FALSE, tr_name |-> "", want_prices |-> <<>>, qty |-> 0,
           list_ok |-> FALSE, snap |-> <<>>, from |-> 0, to |-> 0,
           all_ok |-> FALSE, repeat |-> FALSE, after |-> <<>>]

LegsInit ==
    [t \in {"scalp_add", "core_runner"} |->
        IF t = "scalp_add"
        THEN [l \in {"tp1", "tp2", "stop"} |-> None]
        ELSE [l \in {"stop", "tgt1", "tgt2"} |-> None]]

\* ------------------------------------------------------------------------
\* Tick buffer and 1-minute bars
\* ------------------------------------------------------------------------
Bar(p) == [high |-> p, low |-> p, close |-> p]

\* deque.append with maxlen: the oldest bar is dropped when the deque is full
PushBar(b, x) ==
    IF Len(b) >= BarsMaxLen THEN Append(Tail(b), x) ELSE Append(b, x)

\* the roll without the catch-up loop: one bar whatever the gap
PushBarsOnce(b, x, k) == IF k <= 0 THEN b ELSE PushBar(b, x)

RECURSIVE PushBars(_, _, _)
PushBars(b, x, k) == IF k <= 0 THEN b ELSE PushBars(PushBar(b, x), x, k - 1)

\* _update_buffers moving only the close of the current bar
UpdateBuffersCloseOnly(b, last, p, minute) ==
    IF last = None
    THEN [bars |-> PushBar(b, Bar(p)), last |-> minute]
    ELSE IF minute = last
    THEN [bars |-> [b EXCEPT ![Len(b)].close = p], last |-> last]
    ELSE [bars |-> PushBars(b, Bar(p), minute - last), last |-> minute]

\* _update_buffers(price) at wall-clock minute `minute`:
\* the new <<_bars_1m, _last_bar_min>>
UpdateBuffers(b, last, p, minute) ==
    IF last = None
    THEN [bars |-> PushBar(b, Bar(p)), last |-> minute]
    ELSE IF minute = last
    THEN LET cur == b[Len(b)]
             upd == [high |-> Max2(cur.high, p), low |-> Min2(cur.low, p),
                     close |-> p]
         IN  [bars |-> [b EXCEPT ![Len(b)] = upd], last |-> last]
    ELSE [bars |-> PushBars(b, Bar(p), minute - last), last |-> minute]

TrueRange(b, prev_close) ==
    Max2(b.high - b.low,
         Max2(Abs(b.high - prev_close), Abs(b.low - prev_close)))

\* sum of the true ranges of bars i..Len(b), prev_close being the close of
\* the bar before bar i
RECURSIVE SumTR(_, _, _)
SumTR(b, i, prev_close) ==
    IF i > Len(b) THEN 0
    ELSE TrueRange(b[i], prev_close) + SumTR(b, i + 1, b[i].close)

\* _atr14 with prev_close seeded from the first bar of the window
Atr14xSeedInside(b) ==
    IF Len(b) < AtrWindow THEN 0
    ELSE SumTR(b, Len(b) - AtrPeriod + 1, b[Len(b) - AtrPeriod + 1].close)

\* _atr14(bars) multiplied by 14 (the mean itself is not an integer)
Atr14x(b) ==
    IF Len(b) < AtrWindow THEN 0
    ELSE SumTR(b, Len(b) - AtrPeriod + 1, b[Len(b) - AtrPeriod].close)

\* new_stop = round((latest_hi + atr) / TICK_SIZE) * TICK_SIZE
NewStop(b) ==
    PyRound(AtrPeriod * b[Len(b)].high + Atr14x(b), AtrPeriod * TICK_SIZE)
        * TICK_SIZE

\* the trail guard: enough bars and a stop is tracked
TrailArmed(b, id, px) == Len(b) >= AtrWindow /\ px # None /\ id # None

\* the trail without its direction: any candidate that differs is taken
ShouldTightenAnyMove(new_stop, stop_px) == new_stop # stop_px

\* the trail taking a candidate that is one tick below the stop
ShouldTightenOneTick(new_stop, stop_px) == new_stop <= stop_px - TICK_SIZE

\* "only tighten"
ShouldTighten(new_stop, stop_px) == new_stop < stop_px - TICK_SIZE

\* ------------------------------------------------------------------------
\* Order client (live/ib_order.py) and the broker behind it
\* ------------------------------------------------------------------------
\* One request of the order client, as recorded in `calls`.
Call(op, id, px, qty, ro, typ, leg, ok) ==
    [op |-> op, orderId |-> id, price |-> px, quantity |-> qty,
     reduceOnly |-> ro, orderType |-> typ, leg |-> leg, ok |-> ok]

OrderIds(book) == {book[i].orderId : i \in DOMAIN book}

\* The orderId the broker returns for a new order: an id that no open
\* order carries and that the engine references nowhere.
NewOrderId(st) ==
    LET used == OrderIds(st.orders) \cup {st.core_id}
                \cup UNION {{st.legs[t][l] : l \in DOMAIN st.legs[t]}
                            : t \in DOMAIN st.legs}
                \cup {st.calls[i].orderId : i \in DOMAIN st.calls}
    IN  CHOOSE i \in 1..(Cardinality(used) + 1) :
            i \notin used /\ \A j \in 1..(i - 1) : j \in used

\* submit_order: the price is rounded to the tick, the broker opens the order
SubmitOrder(st, side, qty, typ, px, ro, leg, ok) ==
    LET id == NewOrderId(st)
        sent == RoundToTick(px)
    IN  IF ok
        THEN [st EXCEPT
                !.orders = Append(@, Order(id, sent, ro, qty, typ, side)),
                !.calls = Append(@, Call("submit", id, px, qty, ro, typ, leg, TRUE)),
                !.oid = id]
        ELSE [st EXCEPT
                !.calls = Append(@, Call("submit", None, px, qty, ro, typ, leg, FALSE)),
                !.oid = None]

\* cancel_order: the broker closes the order; a request for an order that
\* is no longer open is answered with an error status
CancelOrder(st, id, px, ok) ==
    LET done == ok /\ id \in OrderIds(st.orders)
        rest == SelectSeq(st.orders, LAMBDA o : o.orderId # id)
    IN  [st EXCEPT
            !.orders = IF done THEN rest ELSE @,
            !.calls = Append(@, Call("cancel", id, px, 0, TRUE, "", "", done))]

\* modify_order: the price is rounded to the tick and replaces the order's
ModifyOk(st, id, ok) == ok /\ id \in OrderIds(st.orders)

ModifyOrder(st, id, px, ok) ==
    LET done == ModifyOk(st, id, ok)
        sent == RoundToTick(px)
        book == [i \in DOMAIN st.orders |->
                    IF st.orders[i].orderId = id
                    THEN [st.orders[i] EXCEPT !.price = sent]
                    ELSE st.orders[i]]
    IN  [st EXCEPT
            !.orders = IF done THEN book ELSE @,
            !.calls = Append(@, Call("modify", id, px, 0, TRUE, "", "", done))]

\* IBClient._post from attempt `attempt` on.  resp[i] is the status of the
\* response to the i-th send, None when requests.post itself raised (time
\* out, connection error).  A status of 500 or more is followed by a pause
\* of 0.5 * attempt seconds and, while attempts remain, by another send;
\* raise_for_status raises on the last response when it is 400 or more.
\* sends: requests sent; slept: pauses, in half seconds.
RECURSIVE Post(_, _, _)
Post(resp, attempt, slept) ==
    IF resp[attempt] = None
    THEN [sends |-> attempt, slept |-> slept, raised |-> TRUE]
    ELSE IF resp[attempt] < 500
    THEN [sends |-> attempt, slept |-> slept, raised |-> resp[attempt] >= 400]
    ELSE IF attempt = RETRY_MAX
    THEN [sends |-> attempt, slept |-> slept + attempt, raised |-> TRUE]
    ELSE Post(resp, attempt + 1, slept + attempt)

\* the single DELETE of cancel_order followed by raise_for_status
Delete(status) ==
    [sends |-> 1, slept |-> 0, raised |-> status = None \/ status >= 400]

\* _fetch_open_orders: the listing, or nothing when list_orders raised
FetchRaw(book, list_ok) == IF list_ok THEN book ELSE <<>>

\* {float(o["price"]): o for o in raw}: the last order listed at a price
\* replaces the earlier ones
OpenByPx(raw) ==
    [p \in {raw[i].price : i \in DOMAIN raw} |->
        raw[CHOOSE i \in DOMAIN raw :
                raw[i].price = p /\ \A j \in DOMAIN raw : j > i => raw[j].price # p]]

\* the keys of that dict in iteration order (first insertion)
RECURSIVE PxKeys(_, _)
PxKeys(raw, i) ==
    IF i > Len(raw) THEN <<>>
    ELSE IF \E j \in 1..(i - 1) : raw[j].price = raw[i].price
    THEN PxKeys(raw, i + 1)
    ELSE <<raw[i].price>> \o PxKeys(raw, i + 1)

WantValues(want) == {want[i].px : i \in DOMAIN want}

\* "cancel rogue": is the order of the snapshot cancelled by the pass
IsRogue(order, want) ==
    order.reduceOnly /\ order.price \notin WantValues(want)

\* "submit missing": is the leg submitted by the pass
IsMissing(leg, open) == leg.px # None /\ leg.px \notin DOMAIN open

\* the order type with a leg at the last price counted as better than market
OrdTypeAtOrBetter(side, px, last) ==
    IF (side = "BUY" /\ px <= last) \/ (side = "SELL" /\ px >= last)
    THEN "LIMIT" ELSE "STOP"

OrdType(side, px, last) ==
    IF (side = "BUY" /\ px < last) \/ (side = "SELL" /\ px > last)
    THEN "LIMIT" ELSE "STOP"

CancelTargets(raw, want) ==
    LET open == OpenByPx(raw)
    IN  SelectSeq(PxKeys(raw, 1), LAMBDA p : IsRogue(open[p], want))

CancelIds(raw, want) ==
    {OpenByPx(raw)[q].orderId : q \in Range(CancelTargets(raw, want))}

SubmitLegs(raw, want) ==
    LET open == OpenByPx(raw)
    IN  {want[i].leg : i \in {j \in DOMAIN want : IsMissing(want[j], open)}}

\* the cancel loop left at the first cancel that raises
RECURSIVE CancelLoopAbort(_, _, _, _, _)
CancelLoopAbort(st, keys, k, open, failC) ==
    IF k > Len(keys) THEN st
    ELSE LET o == open[keys[k]]
         IN  With(CancelOrder(st, o.orderId, o.price, o.orderId \notin failC),
                  LAMBDA s1 : IF o.orderId \in failC THEN s1
                              ELSE CancelLoopAbort(s1, keys, k + 1, open, failC))

RECURSIVE CancelLoop(_, _, _, _, _)
CancelLoop(st, keys, k, open, failC) ==
    IF k > Len(keys) THEN st
    ELSE LET o == open[keys[k]]
         IN  With(CancelOrder(st, o.orderId, o.price, o.orderId \notin failC),
                  LAMBDA s1 : CancelLoop(s1, keys, k + 1, open, failC))

\* the submit loop storing the outcome under the leg whether or not
\* submit_order returned an id
RECURSIVE SubmitLoopCacheAlways(_, _, _, _, _, _)
SubmitLoopCacheAlways(st, fr, i, open, failS, last) ==
    IF i > Len(fr.want_prices) THEN st
    ELSE LET leg == fr.want_prices[i]
         IN  IF ~IsMissing(leg, open)
             THEN SubmitLoopCacheAlways(st, fr, i + 1, open, failS, last)
             ELSE LET typ == OrdType(fr.side, leg.px, last)
                      Cache(s1) ==
                          [s1 EXCEPT
                             !.legs[fr.tr_name][leg.leg] = s1.oid,
                             !.core_id = IF fr.tr_name = "core_runner" /\ leg.leg = "stop"
                                         THEN s1.oid ELSE @,
                             !.core_px = IF fr.tr_name = "core_runner" /\ leg.leg = "stop"
                                         THEN leg.px ELSE @]
                  IN  With(With(SubmitOrder(st, fr.side, fr.qty, typ, leg.px, TRUE,
                                            leg.leg, leg.leg \notin failS), Cache),
                           LAMBDA s2 : SubmitLoopCacheAlways(s2, fr, i + 1, open,
                                                             failS, last))

RECURSIVE SubmitLoop(_, _, _, _, _, _)
SubmitLoop(st, fr, i, open, failS, last) ==
    IF i > Len(fr.want_prices) THEN st
    ELSE LET leg == fr.want_prices[i]
         IN  IF ~IsMissing(leg, open)
             THEN SubmitLoop(st, fr, i + 1, open, failS, last)
             ELSE LET typ == OrdType(fr.side, leg.px, last)
                      Cache(s1) ==
                          IF s1.oid = None THEN s1
                          ELSE [s1 EXCEPT
                                  !.legs[fr.tr_name][leg.leg] = s1.oid,
                                  !.core_id = IF fr.tr_name = "core_runner" /\ leg.leg = "stop"
                                              THEN s1.oid ELSE @,
                                  !.core_px = IF fr.tr_name = "core_runner" /\ leg.leg = "stop"
                                              THEN leg.px ELSE @]
                  IN  With(With(SubmitOrder(st, fr.side, fr.qty, typ, leg.px, TRUE,
                                            leg.leg, leg.leg \notin failS), Cache),
                           LAMBDA s2 : SubmitLoop(s2, fr, i + 1, open, failS, last))

\* the pass with its two loops exchanged: submit missing, then cancel rogue
ReconcilePassSubmitFirst(st, fr, raw, failC, failS, last) ==
    With(OpenByPx(raw), LAMBDA open :
        With(SubmitLoop(st, fr, 1, open, failS, last),
             LAMBDA s1 : CancelLoop(s1, CancelTargets(raw, fr.want_prices), 1,
                                    open, failC)))

\* _reconcile_tranche after its open-order fetch returned `raw`
ReconcilePass(st, fr, raw, failC, failS, last) ==
    With(OpenByPx(raw), LAMBDA open :
        With(CancelLoop(st, CancelTargets(raw, fr.want_prices), 1, open, failC),
             LAMBDA s1 : SubmitLoop(s1, fr, 1, open, failS, last)))

\* ------------------------------------------------------------------------
\* Tranche managers
\* ------------------------------------------------------------------------
Leg(name, px) == [leg |-> name, px |-> px]

\* want_prices without the tick rounding
ScalpWantUnrounded(tr) ==
    << Leg("tp1", tr.oco.tp1), Leg("tp2", tr.oco.tp2), Leg("stop", tr.oco.stop) >>

\* want_prices of _manage_scalp, in dict order
ScalpWant(tr) ==
    << Leg("tp1", RoundToTick(tr.oco.tp1)),
       Leg("tp2", RoundToTick(tr.oco.tp2)),
       Leg("stop", RoundToTick(tr.oco.stop)) >>

TgtName(i) == IF i = 1 THEN "tgt1" ELSE "tgt2"

\* want_dict of _manage_core, in dict order
CoreWant(tr, stop_px) ==
    <<Leg("stop", stop_px)>> \o
    [i \in 1..Len(tr.hard_targets) |->
        Leg(TgtName(i), RoundToTick(tr.hard_targets[i]))]

\* "initial placement if missing": no reduce-only order of the price-keyed
\* listing sits at the initial stop price
InitialStopMissing(open, stop_price) ==
    ~\E p \in DOMAIN open : open[p].reduceOnly /\ open[p].price = stop_price

Stop(pcv, evv) == [pc |-> pcv, ti |-> 0, frame |-> NoFrame, ev |-> evv]

\* the loop without the managers' entry test abs(self.pos) < qty
RECURSIVE DispatchNoEntryTest(_, _, _)
DispatchNoEntryTest(c, i, p) ==
    IF i > Len(c.tranches) THEN Stop("idle", "done")
    ELSE LET tr == c.tranches[i]
         IN  IF tr.status # "active" THEN DispatchNoEntryTest(c, i + 1, p)
             ELSE IF tr.name = "scalp_add"
             THEN IF ~tr.has_oco THEN Stop("idle", "raised_config")
                  ELSE [pc |-> "reconcile", ti |-> i,
                        frame |-> [tr_name |-> "scalp_add",
                                   want_prices |-> ScalpWant(tr),
                                   qty |-> tr.qty, side |-> "BUY"],
                        ev |-> "running"]
             ELSE IF tr.name = "core_runner"
             THEN [pc |-> "core_fetch", ti |-> i, frame |-> NoFrame,
                   ev |-> "running"]
             ELSE DispatchNoEntryTest(c, i + 1, p)

\* The loop of _evaluate_tranches from tranche i on, up to the next await:
\* an inactive or not yet entered tranche is passed over, _manage_scalp
\* stops at the fetch of _reconcile_tranche, _manage_core at its own fetch.
\* A missing "oco" block raises KeyError out of the evaluation.
RECURSIVE Dispatch(_, _, _)
Dispatch(c, i, p) ==
    IF i > Len(c.tranches) THEN Stop("idle", "done")
    ELSE LET tr == c.tranches[i]
         IN  IF tr.status # "active" THEN Dispatch(c, i + 1, p)
             ELSE IF tr.name = "scalp_add"
             THEN IF Abs(p) < tr.qty THEN Dispatch(c, i + 1, p)
                  ELSE IF ~tr.has_oco THEN Stop("idle", "raised_config")
                  ELSE [pc |-> "reconcile", ti |-> i,
                        frame |-> [tr_name |-> "scalp_add",
                                   want_prices |-> ScalpWant(tr),
                                   qty |-> tr.qty, side |-> "BUY"],
                        ev |-> "running"]
             ELSE IF tr.name = "core_runner"
             THEN IF Abs(p) < tr.qty THEN Dispatch(c, i + 1, p)
                  ELSE [pc |-> "core_fetch", ti |-> i, frame |-> NoFrame,
                        ev |-> "running"]
             ELSE Dispatch(c, i + 1, p)

\* _evaluate_tranches without the hard guard
EvaluateTranchesNoGuard(c, p, last) ==
    IF last = None THEN Stop("idle", "noprice") ELSE Dispatch(c, 1, p)

\* _evaluate_tranches letting a position one contract above the limit pass
EvaluateTranchesOneAbove(c, p, last) ==
    IF Abs(p) > c.position_limit + 1 THEN Stop("idle", "guard")
    ELSE IF last = None THEN Stop("idle", "noprice")
    ELSE Dispatch(c, 1, p)

\* _evaluate_tranches up to its first await
EvaluateTranches(c, p, last) ==
    IF Abs(p) > c.position_limit THEN Stop("idle", "guard")
    ELSE IF last = None THEN Stop("idle", "noprice")
    ELSE Dispatch(c, 1, p)

\* _update_pos_from_rows without the break: the last matching row wins
RECURSIVE UpdatePosNoBreak(_, _, _)
UpdatePosNoBreak(rows, i, p) ==
    IF i > Len(rows) THEN p
    ELSE UpdatePosNoBreak(rows, i + 1, IF rows[i].match THEN rows[i].qty ELSE p)

\* _update_pos_from_rows
RECURSIVE UpdatePosFromRows(_, _, _)
UpdatePosFromRows(rows, i, p) ==
    IF i > Len(rows) THEN p
    ELSE IF rows[i].match THEN rows[i].qty
    ELSE UpdatePosFromRows(rows, i + 1, p)

CurSt == [orders |-> orders, legs |-> legs_required, core_id |-> core_stop_id,
          core_px |-> core_stop_px, calls |-> calls, oid |-> None]

Failed(cs, from) == Cardinality({k \in from..Len(cs) : ~cs[k].ok})

Injected(b) == IF b THEN 1 ELSE 0

\* ------------------------------------------------------------------------
\* Actions
\* ------------------------------------------------------------------------
Init ==
    /\ phase = "new"
    /\ cfg \in RulesSet
    /\ orders \in InitBooks
    /\ pos = 0
    /\ price = None
    /\ bars_1m = <<>>
    /\ last_bar_min = None
    /\ core_stop_id = None
    /\ core_stop_px = None
    /\ legs_required = LegsInit
    /\ pc = "idle"
    /\ ti = 0
    /\ frame = NoFrame
    /\ calls = <<>>
    /\ pass = NoPass
    /\ ev = "none"
    /\ nticks = 0
    /\ nfail = 0
    /\ poll = "none"
    /\ probe = NoProbe

\* FuturesAdapter.__init__: cfg["position_limit"] raises KeyError when the
\* field is missing; the tranche entries are stored as they are.
Construct ==
    /\ phase = "new"
    /\ phase' = IF cfg.has_position_limit THEN "running" ELSE "failed"
    /\ UNCHANGED <<cfg, pos, price, bars_1m, last_bar_min, core_stop_id,
                   core_stop_px, legs_required, pc, ti, frame, orders,
                   calls, pass, ev, nticks, nfail, poll, probe>>

\* does _update_pos_from_rows raise: the first row of the contract carries
\* a qty that int() rejects
RECURSIVE RowsRaise(_, _)
RowsRaise(rows, i) ==
    IF i > Len(rows) THEN FALSE
    ELSE IF rows[i].match THEN rows[i].qty = None
    ELSE RowsRaise(rows, i + 1)

\* the try block of _poll_positions without its except clause
PollOutcomeUncaught(ok, rows, p) ==
    IF ~ok \/ RowsRaise(rows, 1) THEN [pos |-> p, ev |-> "raised"]
    ELSE [pos |-> UpdatePosFromRows(rows, 1, p), ev |-> "ok"]

\* The try block of one iteration of _poll_positions: ok says that the
\* request returned status 200 with a JSON body, rows is that body.  Every
\* exception is caught and logged.
PollOutcome(ok, rows, p) ==
    IF ~ok \/ RowsRaise(rows, 1) THEN [pos |-> p, ev |-> "failed"]
    ELSE [pos |-> UpdatePosFromRows(rows, 1, p), ev |-> "ok"]

\* One iteration of _poll_positions.  An exception that left the loop
\* would end the poller and, through asyncio.gather, _main.
PollPositions(ok, rows) ==
    /\ phase = "running"
    /\ ok \/ rows = <<>>
    /\ LET out == PollOutcome(ok, rows, pos)
       IN  /\ pos' = out.pos
           /\ poll' = out.ev
           /\ phase' = IF out.ev = "raised" THEN "stopped" ELSE phase
    /\ UNCHANGED <<cfg, price, bars_1m, last_bar_min, core_stop_id,
                   core_stop_px, legs_required, pc, ti, frame, orders,
                   calls, pass, ev, nticks, nfail, probe>>

\* the message handler entered without waiting for the running evaluation
HandleTickerNoAwait(p, dt) ==
    /\ phase = "running"
    /\ LET minute == dt
           buf == UpdateBuffers(bars_1m, last_bar_min, p, minute)
           nxt == EvaluateTranches(cfg, pos, p)
       IN  /\ price' = p
           /\ bars_1m' = buf.bars
           /\ last_bar_min' = buf.last - minute
           /\ pc' = nxt.pc
           /\ ti' = nxt.ti
           /\ frame' = nxt.frame
           /\ ev' = nxt.ev
    /\ calls' = <<>>
    /\ pass' = [pass EXCEPT !.valid = FALSE, !.snap = <<>>, !.from = 0, !.to = 0,
                             !.list_ok = FALSE, !.repeat = FALSE]
    /\ UNCHANGED <<phase, cfg, pos, core_stop_id, core_stop_px, legs_required,
                   orders, nfail, poll>>

\* _md_loop receives a ticker message dt minutes after the previous one:
\* price, buffers, then _evaluate_tranches up to its first await.
\* Minutes are counted from the minute of the latest tick (the code uses
\* only the difference between the tick's minute and _last_bar_min).
HandleTicker(p, dt) ==
    /\ phase = "running"
    /\ pc = "idle"
    /\ LET minute == dt
           buf == UpdateBuffers(bars_1m, last_bar_min, p, minute)
           nxt == EvaluateTranches(cfg, pos, p)
       IN  /\ price' = p
           /\ bars_1m' = buf.bars
           /\ last_bar_min' = buf.last - minute
           /\ pc' = nxt.pc
           /\ ti' = nxt.ti
           /\ frame' = nxt.frame
           /\ ev' = nxt.ev
    /\ calls' = <<>>
    /\ pass' = [pass EXCEPT !.valid = FALSE, !.snap = <<>>, !.from = 0, !.to = 0,
                             !.list_ok = FALSE, !.repeat = FALSE]
    /\ UNCHANGED <<phase, cfg, pos, core_stop_id, core_stop_px, legs_required,
                   orders, nfail, poll>>

\* a ticker message, any price, at most MaxTicks of them
Tick(p, dt) ==
    /\ nticks < MaxTicks
    /\ HandleTicker(p, dt)
    /\ nticks' = nticks + 1
    /\ UNCHANGED probe

\* a ticker message that repeats the last price
SteadyTick(p, dt) ==
    /\ price = None \/ p = price
    /\ HandleTicker(p, dt)
    /\ UNCHANGED <<nticks, probe>>

\* _manage_core, "trailing stop (initial only)": the stop is submitted when
\* none is tracked and the listing shows no reduce-only order at its price.
\* The submit is outside any try block: raised says the exception left
\* _manage_core.
PlaceInitialStop(st, tr, open, sub_ok) ==
    LET stop_price == RoundToTick(tr.initial)
        place == st.core_id = None /\ InitialStopMissing(open, stop_price)
    IN  IF ~place THEN [st |-> st, placed |-> FALSE, raised |-> FALSE]
        ELSE With(SubmitOrder(st, "BUY", tr.qty, "STOP", stop_price, TRUE,
                              "stop", sub_ok),
                  LAMBDA s1 :
                    IF s1.oid = None
                    THEN [st |-> s1, placed |-> FALSE, raised |-> TRUE]
                    ELSE [st |-> [s1 EXCEPT !.core_id = s1.oid,
                                            !.core_px = stop_price],
                          placed |-> TRUE, raised |-> FALSE])

\* the trail storing the new price before modify_order is called
TrailStopPxFirst(r, b, mod_ok) ==
    LET st == r.st
        trail == /\ ~r.raised
                 /\ TrailArmed(b, st.core_id, st.core_px)
                 /\ ShouldTighten(NewStop(b), st.core_px)
    IN  IF ~trail THEN [st |-> st, trailed |-> FALSE, raised |-> r.raised]
        ELSE With(ModifyOrder(st, st.core_id, NewStop(b), mod_ok),
                  LAMBDA s1 :
                    [st |-> [s1 EXCEPT !.core_px = NewStop(b)],
                     trailed |-> TRUE,
                     raised |-> ~ModifyOk(st, st.core_id, mod_ok)])

\* _manage_core, "ATR trail logic": the tracked stop is modified in place
\* when the candidate is tighter; _core_stop_px follows only when
\* modify_order returned.
TrailStop(r, b, mod_ok) ==
    LET st == r.st
        trail == /\ ~r.raised
                 /\ TrailArmed(b, st.core_id, st.core_px)
                 /\ ShouldTighten(NewStop(b), st.core_px)
    IN  IF ~trail THEN [st |-> st, trailed |-> FALSE, raised |-> r.raised]
        ELSE With(ModifyOrder(st, st.core_id, NewStop(b), mod_ok),
                  LAMBDA s1 :
                    IF ModifyOk(st, st.core_id, mod_ok)
                    THEN [st |-> [s1 EXCEPT !.core_px = NewStop(b)],
                          trailed |-> TRUE, raised |-> FALSE]
                    ELSE [st |-> s1, trailed |-> TRUE, raised |-> TRUE])

\* does this evaluation call submit_order / modify_order in _manage_core
WillPlace(tr, raw) ==
    /\ tr.has_initial
    /\ core_stop_id = None
    /\ InitialStopMissing(OpenByPx(raw), RoundToTick(tr.initial))

\* _manage_core from the return of its open-order fetch up to the fetch of
\* _reconcile_tranche: initial stop placement, ATR trail, want_dict.
\* A missing trailing_stop.initial raises KeyError; an exception of
\* submit_order or modify_order leaves _evaluate_tranches and _md_loop
\* reconnects.
ManageCore(list_ok, sub_ok, mod_ok) ==
    /\ phase = "running"
    /\ pc = "core_fetch"
    /\ LET tr == cfg.tranches[ti]
           raw == FetchRaw(orders, list_ok)
           s0 == [CurSt EXCEPT !.calls =
                     Append(@, Call("list", None, None, 0, FALSE, "", "", list_ok))]
           injected == Injected(~list_ok) + Injected(~sub_ok) + Injected(~mod_ok)
       IN  IF ~tr.has_initial
           THEN /\ sub_ok /\ mod_ok
                /\ nfail + injected <= MaxFail
                /\ nfail' = nfail + injected
                /\ calls' = s0.calls
                /\ pc' = "idle" /\ ti' = 0 /\ frame' = NoFrame
                /\ ev' = "raised_config"
                /\ UNCHANGED <<orders, core_stop_id, core_stop_px>>
           ELSE \E r1 \in {PlaceInitialStop(s0, tr, OpenByPx(raw), sub_ok)} :
                \E r2 \in {TrailStop(r1, bars_1m, mod_ok)} :
                /\ WillPlace(tr, raw) \/ sub_ok
                /\ r2.trailed \/ mod_ok
                /\ nfail + injected <= MaxFail
                /\ nfail' = nfail + injected
                /\ orders' = r2.st.orders
                /\ calls' = r2.st.calls
                /\ core_stop_id' = r2.st.core_id
                /\ core_stop_px' = r2.st.core_px
                /\ IF r2.raised
                   THEN /\ pc' = "idle" /\ ti' = 0 /\ frame' = NoFrame
                        /\ ev' = "raised"
                   ELSE /\ pc' = "reconcile" /\ ti' = ti
                        /\ frame' = [tr_name |-> "core_runner",
                                     want_prices |-> CoreWant(tr, r2.st.core_px),
                                     qty |-> tr.qty, side |-> "BUY"]
                        /\ ev' = "running"
    /\ UNCHANGED <<phase, cfg, pos, price, bars_1m, last_bar_min,
                   legs_required, pass, nticks, poll, probe>>

\* _reconcile_tranche from the return of its open-order fetch to its end,
\* then the rest of the loop of _evaluate_tranches up to the next await.
\* failC: the orders whose cancel raises; failS: the legs whose submit raises.
ReconcileTranche(list_ok, failC, failS) ==
    /\ phase = "running"
    /\ pc = "reconcile"
    /\ \E s1 \in {ReconcilePass(
                       [CurSt EXCEPT !.calls =
                          Append(@, Call("list", None, None, 0, FALSE, "", "", list_ok))],
                       frame, FetchRaw(orders, list_ok), failC, failS, price)} :
       LET raw == FetchRaw(orders, list_ok)
           nxt == Dispatch(cfg, ti + 1, pos)
           from == Len(calls) + 1
           injected == Injected(~list_ok) + Cardinality(failC) + Cardinality(failS)
       IN  /\ nfail + injected <= MaxFail
           /\ nfail' = nfail + injected
           /\ orders' = s1.orders
           /\ calls' = s1.calls
           /\ core_stop_id' = s1.core_id
           /\ core_stop_px' = s1.core_px
           /\ legs_required' = s1.legs
           /\ pass' = [valid |-> TRUE, tr_name |-> frame.tr_name,
                       want_prices |-> frame.want_prices, qty |-> frame.qty,
                       list_ok |-> list_ok, snap |-> raw, from |-> from,
                       to |-> Len(s1.calls),
                       all_ok |-> Failed(s1.calls, from) = 0,
                       repeat |-> /\ pass.tr_name # "" /\ pass.all_ok
                                  /\ pass.tr_name = frame.tr_name
                                  /\ pass.want_prices = frame.want_prices
                                  /\ pass.after = orders,
                       after |-> s1.orders]
           /\ pc' = nxt.pc
           /\ ti' = nxt.ti
           /\ frame' = nxt.frame
           /\ ev' = nxt.ev
    /\ UNCHANGED <<phase, cfg, pos, price, bars_1m, last_bar_min, nticks,
                   poll, probe>>

Next ==
    \/ Construct
    \/ \E ok \in BOOLEAN, rows \in RowsSet : PollPositions(ok, rows)
    \/ \E p \in PriceSet, dt \in DtSet : Tick(p, dt)
    \/ \E list_ok, sub_ok, mod_ok \in BOOLEAN : ManageCore(list_ok, sub_ok, mod_ok)
    \/ \E list_ok \in BOOLEAN :
          \E failC \in SUBSET CancelIds(FetchRaw(orders, list_ok), frame.want_prices),
             failS \in SUBSET SubmitLegs(FetchRaw(orders, list_ok), frame.want_prices) :
             ReconcileTranche(list_ok, failC, failS)

Spec == Init /\ [][Next]_vars

\* Steady market: both tranches active and entered, the position within the
\* limit and unchanged, every tick at the same price, no request fails at
\* the broker, ticks keep arriving.
SteadyInit ==
    /\ phase = "running"
    /\ cfg = Rules(TRUE, ScalpCfg("active", TRUE), CoreCfg("active", TRUE))
    /\ orders \in InitBooks
    /\ pos = 3
    /\ price = None
    /\ bars_1m = <<>>
    /\ last_bar_min = None
    /\ core_stop_id = None
    /\ core_stop_px = None
    /\ legs_required = LegsInit
    /\ pc = "idle"
    /\ ti = 0
    /\ frame = NoFrame
    /\ calls = <<>>
    /\ pass = NoPass
    /\ ev = "none"
    /\ nticks = 0
    /\ nfail = 0
    /\ poll = "none"
    /\ probe = NoProbe

SteadyNext ==
    \/ \E p \in PriceSet, dt \in DtSet : SteadyTick(p, dt)
    \/ ManageCore(TRUE, TRUE, TRUE)
    \/ ReconcileTranche(TRUE, {}, {})

SteadySpec == SteadyInit /\ [][SteadyNext]_vars /\ WF_vars(SteadyNext)

\* The core tranche alone, on a market that also trades one tick below the
\* initial stop price.
TrailPriceSet == {8, 10, 16}

TrailInit ==
    /\ Init
    /\ cfg = Rules(TRUE, ScalpCfg("inactive", TRUE), CoreCfg("active", TRUE))

TrailNext ==
    \/ Construct
    \/ \E ok \in BOOLEAN, rows \in RowsSet : PollPositions(ok, rows)
    \/ \E p \in TrailPriceSet, dt \in DtSet : Tick(p, dt)
    \/ \E list_ok, sub_ok, mod_ok \in BOOLEAN : ManageCore(list_ok, sub_ok, mod_ok)
    \/ \E list_ok \in BOOLEAN :
          \E failC \in SUBSET CancelIds(FetchRaw(orders, list_ok), frame.want_prices),
             failS \in SUBSET SubmitLegs(FetchRaw(orders, list_ok), frame.want_prices) :
             ReconcileTranche(list_ok, failC, failS)

TrailSpec == TrailInit /\ [][TrailNext]_vars

\* ------------------------------------------------------------------------
\* The helpers applied on their own
\* ------------------------------------------------------------------------
\* bars as _update_buffers builds them: low <= close <= high
BarKinds ==
    { [high |-> 8,  low |-> 8,  close |-> 8],
      [high |-> 16, low |-> 8,  close |-> 12],
      [high |-> 16, low |-> 16, close |-> 16],
      [high |-> 12, low |-> 4,  close |-> 4] }

\* bar sequences of up to MaxBars bars: bars of one kind, then one bar of a
\* second kind, then bars of a third kind
AtrInputs ==
    {<<>>} \cup
    { [i \in 1..n |-> IF i < split THEN k1 ELSE IF i = split THEN k2 ELSE k3] :
        n \in 1..MaxBars, split \in 1..MaxBars, k1 \in BarKinds,
        k2 \in BarKinds, k3 \in BarKinds }

\* the engine before construction, no order at the broker
HelperIdle ==
    /\ phase = "new"
    /\ cfg = Rules(TRUE, ScalpCfg("active", TRUE), CoreCfg("active", TRUE))
    /\ orders = <<>>
    /\ pos = 0
    /\ price = None
    /\ bars_1m = <<>>
    /\ last_bar_min = None
    /\ core_stop_id = None
    /\ core_stop_px = None
    /\ legs_required = LegsInit
    /\ pc = "idle"
    /\ ti = 0
    /\ frame = NoFrame
    /\ calls = <<>>
    /\ pass = NoPass
    /\ ev = "none"
    /\ nticks = 0
    /\ nfail = 0
    /\ poll = "none"

\* what the order endpoint answers to one request: a status code, or None
\* when no response arrives
StatusSet == {200, 400, 500, 503, None}

HelperInit ==
    /\ HelperIdle
    /\ \/ \E p \in 0..MaxPrice :
             probe = [fn |-> "round_to_tick", arg |-> p, done |-> FALSE, res |-> None]
       \/ \E b \in AtrInputs :
             probe = [fn |-> "atr14", arg |-> b, done |-> FALSE, res |-> None]
       \/ \E r \in [1..RETRY_MAX -> StatusSet] :
             probe = [fn |-> "submit_order", arg |-> r, done |-> FALSE, res |-> None]
       \/ \E r \in StatusSet :
             probe = [fn |-> "cancel_order", arg |-> r, done |-> FALSE, res |-> None]
       \/ \E n \in 0..MaxRows : \E rows \in [1..n -> RowSet], p \in PosSet :
             probe = [fn |-> "poll_positions", arg |-> [rows |-> rows, pos |-> p],
                      done |-> FALSE, res |-> None]

\* A configured price goes through the rounding of the tranche manager
\* (want), then through the rounding of submit_order / modify_order (sent);
\* the broker lists the order at the price sent.
ApplyRoundToTick ==
    /\ probe.fn = "round_to_tick" /\ ~probe.done
    /\ probe' = [probe EXCEPT
                    !.done = TRUE,
                    !.res = [want |-> RoundToTick(probe.arg),
                             sent |-> RoundToTick(RoundToTick(probe.arg))]]
    /\ UNCHANGED <<phase, cfg, pos, price, bars_1m, last_bar_min, core_stop_id,
                   core_stop_px, legs_required, pc, ti, frame, orders, calls,
                   pass, ev, nticks, nfail, poll>>

\* _atr14 applied to a bar sequence
ApplyAtr14 ==
    /\ probe.fn = "atr14" /\ ~probe.done
    /\ probe' = [probe EXCEPT !.done = TRUE, !.res = Atr14x(probe.arg)]
    /\ UNCHANGED <<phase, cfg, pos, price, bars_1m, last_bar_min, core_stop_id,
                   core_stop_px, legs_required, pc, ti, frame, orders, calls,
                   pass, ev, nticks, nfail, poll>>

\* the submit of one missing leg by a reconciliation pass: submit_order
\* hands its payload to _post
ApplySubmitOrder ==
    /\ probe.fn = "submit_order" /\ ~probe.done
    /\ probe' = [probe EXCEPT !.done = TRUE, !.res = Post(probe.arg, 1, 0)]
    /\ UNCHANGED <<phase, cfg, pos, price, bars_1m, last_bar_min, core_stop_id,
                   core_stop_px, legs_required, pc, ti, frame, orders, calls,
                   pass, ev, nticks, nfail, poll>>

\* the cancel of one rogue order by a reconciliation pass
ApplyCancelOrder ==
    /\ probe.fn = "cancel_order" /\ ~probe.done
    /\ probe' = [probe EXCEPT !.done = TRUE, !.res = Delete(probe.arg)]
    /\ UNCHANGED <<phase, cfg, pos, price, bars_1m, last_bar_min, core_stop_id,
                   core_stop_px, legs_required, pc, ti, frame, orders, calls,
                   pass, ev, nticks, nfail, poll>>

\* one iteration of _poll_positions whose request returned status 200 with
\* the rows probe.arg.rows, self.pos being probe.arg.pos
ApplyPollPositions ==
    /\ probe.fn = "poll_positions" /\ ~probe.done
    /\ probe' = [probe EXCEPT
                    !.done = TRUE,
                    !.res = PollOutcome(TRUE, probe.arg.rows, probe.arg.pos)]
    /\ UNCHANGED <<phase, cfg, pos, price, bars_1m, last_bar_min, core_stop_id,
                   core_stop_px, legs_required, pc, ti, frame, orders, calls,
                   pass, ev, nticks, nfail, poll>>

HelperNext ==
    \/ ApplyRoundToTick
    \/ ApplyAtr14
    \/ ApplySubmitOrder
    \/ ApplyCancelOrder
    \/ ApplyPollPositions

HelperSpec == HelperInit /\ [][HelperNext]_vars

\* ------------------------------------------------------------------------
\* The bar aggregator under a stream of ticks
\* ------------------------------------------------------------------------
BufPriceSet == {4, 8, 16}      \* last-trade prices
BufDtSet == {0, 1, 14, 16}     \* minutes elapsed since the previous tick

BufferInit == HelperIdle /\ probe = NoProbe

\* A ticker message reaching an engine that holds no position: the price,
\* _update_buffers, and an evaluation that manages no tranche.  probe keeps
\* the history the bars are compared with: the gap of this tick and the
\* prices of the ticks received since the newest bar was opened.
BufferTick(p, dt) ==
    /\ nticks < MaxBufTicks
    /\ HandleTicker(p, dt)
    /\ nticks' = nticks + 1
    /\ probe' = [fn |-> "update_buffers", arg |-> dt, done |-> TRUE,
                 res |-> IF last_bar_min = None \/ dt # 0 THEN <<p>>
                         ELSE Append(probe.res, p)]

BufferNext ==
    \/ Construct
    \/ \E p \in BufPriceSet, dt \in BufDtSet : BufferTick(p, dt)

BufferSpec == BufferInit /\ [][BufferNext]_vars

\* ------------------------------------------------------------------------
\* The market-data task reading its connection
\* ------------------------------------------------------------------------
\* messages of the stream: tickers, and a message of another type that
\* carries a "last" field as well
MsgSet ==
    { [type |-> "ticker", last |-> 8], [type |-> "ticker", last |-> 16],
      [type |-> "trade", last |-> 16] }

\* position reports of the stream runs: the contract's row, within the
\* limit or above it
StreamRowsSet == {<<[match |-> TRUE, qty |-> 3]>>, <<[match |-> TRUE, qty |-> 5]>>}

\* probe holds the connection: the messages delivered and not yet read, in
\* delivery order, how many were delivered and how many were read
StreamInit ==
    /\ HelperIdle
    /\ probe = [fn |-> "stream", arg |-> 0, done |-> FALSE,
                res |-> [inbox |-> <<>>, nread |-> 0]]

\* an exception has left _evaluate_tranches: the `async with` block is
\* left and the connection closed
Broken == ev \in {"raised", "raised_config"}

\* the server sends a message on the open connection
Deliver(m) ==
    /\ phase = "running"
    /\ ~Broken
    /\ probe.arg < MaxMsgs
    /\ probe' = [probe EXCEPT !.arg = @ + 1, !.res.inbox = Append(@, m)]
    /\ UNCHANGED <<phase, cfg, pos, price, bars_1m, last_bar_min, core_stop_id,
                   core_stop_px, legs_required, pc, ti, frame, orders, calls,
                   pass, ev, nticks, nfail, poll>>

\* `async for raw in ws`: the loop body is entered with the oldest unread
\* message once the body of the previous message has ended; a message
\* whose type is not "ticker" is read and dropped.
ReadMessage(dt) ==
    /\ ~Broken
    /\ probe.res.inbox # <<>>
    /\ probe' = [probe EXCEPT !.res.inbox = Tail(@), !.res.nread = @ + 1]
    /\ LET m == Head(probe.res.inbox)
       IN  IF m.type = "ticker"
           THEN HandleTicker(m.last, dt) /\ nticks' = nticks + 1
           ELSE /\ phase = "running"
                /\ pc = "idle"
                /\ UNCHANGED <<phase, cfg, pos, price, bars_1m, last_bar_min,
                               core_stop_id, core_stop_px, legs_required, pc,
                               ti, frame, orders, calls, pass, ev, nticks,
                               nfail, poll>>

\* the except clause of _md_loop: after the pause a new connection is
\* opened; what the closed connection still held is never read
Reconnect ==
    /\ phase = "running"
    /\ pc = "idle"
    /\ Broken
    /\ ev' = "reconnected"
    /\ probe' = [probe EXCEPT !.res.inbox = <<>>]
    /\ UNCHANGED <<phase, cfg, pos, price, bars_1m, last_bar_min, core_stop_id,
                   core_stop_px, legs_required, pc, ti, frame, orders, calls,
                   pass, nticks, nfail, poll>>

StreamNext ==
    \/ Construct
    \/ \E rows \in StreamRowsSet : PollPositions(TRUE, rows)
    \/ \E m \in MsgSet : Deliver(m)
    \/ \E dt \in DtSet : ReadMessage(dt)
    \/ Reconnect
    \/ \E list_ok, sub_ok, mod_ok \in BOOLEAN : ManageCore(list_ok, sub_ok, mod_ok)
    \/ \E list_ok \in BOOLEAN :
          \E failC \in SUBSET CancelIds(FetchRaw(orders, list_ok), frame.want_prices),
             failS \in SUBSET SubmitLegs(FetchRaw(orders, list_ok), frame.want_prices) :
             ReconcileTranche(list_ok, failC, failS)

StreamSpec == StreamInit /\ [][StreamNext]_vars

\* ------------------------------------------------------------------------
\* PositionMonitor.get_portfolio_summary (live/monitor.py)
\* ------------------------------------------------------------------------
\* self.positions: no position, one position, two positions (values in
\* per cent for max_drawdown_pct)
MonitorPositions ==
    { <<>>,
      <<[qty |-> 2, entry_price |-> 8, unrealized_pnl |-> 4, max_drawdown_pct |-> -3]>>,
      <<[qty |-> 2, entry_price |-> 8, unrealized_pnl |-> 4, max_drawdown_pct |-> -3],
        [qty |-> 3, entry_price |-> 16, unrealized_pnl |-> -8, max_drawdown_pct |-> -6]>> }

\* _calculate_max_drawdown: 0 with no position, else the smallest
\* max_drawdown_pct, capped at 0
RECURSIVE CalculateMaxDrawdown(_, _, _)
CalculateMaxDrawdown(positions, i, max_dd) ==
    IF i > Len(positions) THEN max_dd
    ELSE CalculateMaxDrawdown(positions, i + 1,
                              Min2(max_dd, positions[i].max_drawdown_pct))

\* a frame of the call stack: the function and the place it has reached
Frame(fn, at) == [fn |-> fn, at |-> at]

\* the function called from the place the frame has reached
Callee(f) ==
    IF f.fn = "get_portfolio_summary" /\ f.at = "max_drawdown"
    THEN "_calculate_max_drawdown"
    ELSE IF f.fn = "get_portfolio_summary" /\ f.at = "risk_status"
    THEN "_get_risk_status"
    ELSE IF f.fn = "_get_risk_status" /\ f.at = "portfolio"
    THEN "get_portfolio_summary"
    ELSE ""

\* the first place of a function's body
Entry(fn) ==
    IF fn = "get_portfolio_summary" THEN "totals"
    ELSE IF fn = "_calculate_max_drawdown" THEN "return"
    ELSE "portfolio"

\* the place a caller resumes at when its call has returned
Resume(f) ==
    IF f.fn = "get_portfolio_summary" /\ f.at = "max_drawdown"
    THEN Frame(f.fn, "risk_status")
    ELSE IF f.fn = "get_portfolio_summary" /\ f.at = "risk_status"
    THEN Frame(f.fn, "return")
    ELSE Frame(f.fn, "breaches")

\* probe holds the call: self.positions, the call stack and the outcome
MonitorInit ==
    /\ HelperIdle
    /\ \E ps \in MonitorPositions :
          probe = [fn |-> "get_portfolio_summary", arg |-> ps, done |-> FALSE,
                   res |-> [stack |-> <<Frame("get_portfolio_summary", "totals")>>,
                            max_dd |-> 0, out |-> "running"]]

MonitorTop == probe.res.stack[Len(probe.res.stack)]

MonitorFrame ==
    UNCHANGED <<phase, cfg, pos, price, bars_1m, last_bar_min, core_stop_id,
                core_stop_px, legs_required, pc, ti, frame, orders, calls,
                pass, ev, nticks, nfail, poll>>

\* statements without a call: the two sums of get_portfolio_summary, and
\* the breach tests of _get_risk_status
MonitorCompute ==
    /\ ~probe.done
    /\ \/ MonitorTop = Frame("get_portfolio_summary", "totals")
       \/ MonitorTop = Frame("_get_risk_status", "breaches")
    /\ probe' = [probe EXCEPT
                    !.res.stack[Len(probe.res.stack)] =
                        IF MonitorTop.fn = "get_portfolio_summary"
                        THEN Frame(MonitorTop.fn, "max_drawdown")
                        ELSE Frame(MonitorTop.fn, "return")]
    /\ MonitorFrame

\* a call: a frame is pushed; when the stack is full the interpreter
\* raises RecursionError, which no function of the chain catches
MonitorCall ==
    /\ ~probe.done
    /\ Callee(MonitorTop) # ""
    /\ IF Len(probe.res.stack) >= MaxDepth
       THEN probe' = [probe EXCEPT !.done = TRUE, !.res.stack = <<>>,
                                   !.res.out = "RecursionError"]
       ELSE probe' = [probe EXCEPT
                        !.res.stack = Append(@, Frame(Callee(MonitorTop),
                                                      Entry(Callee(MonitorTop))))]
    /\ MonitorFrame

\* a return: the frame is popped and the caller goes on; the return of the
\* outermost get_portfolio_summary hands the summary to the caller
MonitorReturn ==
    /\ ~probe.done
    /\ MonitorTop.at = "return"
    /\ LET n == Len(probe.res.stack)
           dd == IF MonitorTop.fn = "_calculate_max_drawdown"
                 THEN CalculateMaxDrawdown(probe.arg, 1, 0)
                 ELSE probe.res.max_dd
       IN  IF n = 1
           THEN probe' = [probe EXCEPT !.done = TRUE, !.res.stack = <<>>,
                                       !.res.out = "summary"]
           ELSE probe' = [probe EXCEPT
                            !.res.max_dd = dd,
                            !.res.stack = [i \in 1..(n - 1) |->
                                             IF i = n - 1
                                             THEN Resume(probe.res.stack[i])
                                             ELSE probe.res.stack[i]]]
    /\ MonitorFrame

MonitorNext == MonitorCompute \/ MonitorCall \/ MonitorReturn

MonitorSpec == MonitorInit /\ [][MonitorNext]_vars

\* ------------------------------------------------------------------------
\* Properties
\* ------------------------------------------------------------------------
\* the requests of the last reconciliation pass, its listing first
PassCalls == SubSeq(calls, pass.from, pass.to)

PassOps(op) == SelectSeq(PassCalls, LAMBDA c : c.op = op)

NonNullPrices(want) == WantValues(want) \ {None}

ReduceOnlyPrices(book) ==
    {book[i].price : i \in {j \in DOMAIN book : book[j].reduceOnly}}

\* C1: after a reconciliation pass in which the listing, every cancel and
\* every submit succeeded, the prices of the broker's reduce-only open
\* orders are exactly the non-null desired leg prices of the tranche.
C1_PassEnforcesLegSet ==
    (pass.valid /\ pass.all_ok) =>
        ReduceOnlyPrices(pass.after) = NonNullPrices(pass.want_prices)

\* C2: a reconciliation pass that follows a fully successful pass of the
\* same tranche with the same desired legs, the broker's book being as that
\* pass left it, issues no cancel and no submit.
C2_PassIdempotent ==
    (pass.valid /\ pass.repeat /\ pass.list_ok) =>
        PassOps("cancel") = <<>> /\ PassOps("submit") = <<>>

\* C3: a pass cancels exactly the listed open orders that are reduce-only
\* and not at a desired price, submits exactly once each desired leg whose
\* non-null price has no listed order, and touches nothing else.
C3_PassCancelsRogueSubmitsMissing ==
    pass.valid =>
        LET snap == pass.snap
            want == pass.want_prices
            rogue == {snap[i].orderId :
                        i \in {j \in DOMAIN snap :
                                 /\ snap[j].reduceOnly
                                 /\ snap[j].price \notin WantValues(want)}}
            missing == SelectSeq(want, LAMBDA l :
                          /\ l.px # None
                          /\ \A i \in DOMAIN snap : snap[i].price # l.px)
            cancels == PassOps("cancel")
            submits == PassOps("submit")
        IN  /\ {cancels[i].orderId : i \in DOMAIN cancels} = rogue
            /\ Len(cancels) = Cardinality(rogue)
            /\ [i \in DOMAIN submits |-> Leg(submits[i].leg, submits[i].price)]
                 = missing

\* C4: the tracked core stop price, once set, stays set and never increases.
C4_MonotonicTightening ==
    [][core_stop_px # None =>
          (core_stop_px' # None /\ core_stop_px' <= core_stop_px)]_vars

\* a state in which the tracked stop has been trailed below its initial price
C4_Witness ==
    /\ core_stop_px # None
    /\ \E i \in DOMAIN calls : calls[i].op = "modify" /\ calls[i].ok
    /\ \E i \in DOMAIN cfg.tranches :
          /\ cfg.tranches[i].name = "core_runner"
          /\ core_stop_px < RoundToTick(cfg.tranches[i].initial)

\* C5: a tick evaluated while |pos| > position_limit issues no request and
\* leaves the stop cache, the leg-id cache and the broker's book as they are.
C5_PositionLimitGuard ==
    [][(nticks' # nticks /\ Abs(pos) > cfg.position_limit) =>
          /\ calls' = <<>>
          /\ pc' = "idle"
          /\ ev' = "guard"
          /\ UNCHANGED <<core_stop_id, core_stop_px, legs_required, orders>>]_vars

\* a tick stopped by the guard while a core stop is tracked and both
\* tranches are active and entered
C5_Witness ==
    /\ ev = "guard"
    /\ Abs(pos) > cfg.position_limit
    /\ core_stop_id # None
    /\ \A i \in DOMAIN cfg.tranches :
          cfg.tranches[i].status = "active" /\ Abs(pos) >= cfg.tranches[i].qty

ScalpTranche == cfg.tranches[CHOOSE i \in DOMAIN cfg.tranches :
                                cfg.tranches[i].name = "scalp_add"]

\* C6: a scalp pass to which the broker reported no open order submits
\* exactly one order per leg tp1, tp2, stop, at the tick-rounded configured
\* price, with the tranche's qty, reduce-only, and cancels nothing.
C6_ScalpEntrySubmitsBracket ==
    (pass.valid /\ pass.tr_name = "scalp_add" /\ pass.snap = <<>>) =>
        LET tr == ScalpTranche
            submits == PassOps("submit")
            px == [l \in {"tp1", "tp2", "stop"} |->
                     IF l = "tp1" THEN tr.oco.tp1
                     ELSE IF l = "tp2" THEN tr.oco.tp2 ELSE tr.oco.stop]
        IN  /\ PassOps("cancel") = <<>>
            /\ PassOps("modify") = <<>>
            /\ Len(submits) = 3
            /\ {submits[i].leg : i \in DOMAIN submits} = {"tp1", "tp2", "stop"}
            /\ \A i \in DOMAIN submits :
                  /\ submits[i].price = PyRound(px[submits[i].leg], TICK_SIZE) * TICK_SIZE
                  /\ submits[i].price % TICK_SIZE = 0
                  /\ submits[i].quantity = tr.qty
                  /\ submits[i].reduceOnly

\* a scalp pass on an empty listing whose three submits the broker accepted
C6_Witness ==
    /\ pass.valid /\ pass.tr_name = "scalp_add" /\ pass.snap = <<>>
    /\ pass.list_ok /\ pass.all_ok
    /\ Len(pass.after) = 3
    /\ Abs(pos) >= ScalpTranche.qty

\* C7: a pass whose open-order listing failed issues no submit, no cancel
\* and no modify.
C7_FailedListingAbandonsPass ==
    (pass.valid /\ ~pass.list_ok) =>
        \A i \in DOMAIN PassCalls : PassCalls[i].op = "list"

\* C8: no error of the order client leaves _evaluate_tranches.
C8_ClientErrorsCaught == ev # "raised"

\* C10: with a rules document that lacks a required field the engine is
\* never constructed and no tick is evaluated.
C10_IncompleteRulesFatal ==
    ~RulesComplete(cfg) => (phase # "running" /\ ev = "none")

\* a tick's evaluation has ended without a submit and without a cancel
QuietEvaluation ==
    /\ pc = "idle"
    /\ ev \in {"done", "raised"}
    /\ \A i \in DOMAIN calls : calls[i].op \notin {"submit", "cancel"}

\* the desired legs of the tranches under management
ManagedLegPrices ==
    UNION { IF cfg.tranches[i].name = "scalp_add"
            THEN NonNullPrices(ScalpWant(cfg.tranches[i]))
            ELSE NonNullPrices(CoreWant(cfg.tranches[i], core_stop_px))
            : i \in DOMAIN cfg.tranches }

\* C9: in a steady market repeated evaluations converge: eventually an
\* evaluation issues no submit and no cancel, and from then on the broker's
\* reduce-only orders are the desired legs of the tranches under management.
C9_Converges ==
    <>(QuietEvaluation /\ [](ReduceOnlyPrices(orders) = ManagedLegPrices))

Max3(a, b, c) == CHOOSE m \in {a, b, c} : \A x \in {a, b, c} : m >= x

\* the sum of f over the integers lo..hi
RECURSIVE SumOver(_, _, _)
SumOver(f, lo, hi) == IF lo > hi THEN 0 ELSE f[hi] + SumOver(f, lo, hi - 1)

\* C12: _atr14 returns 0 for fewer than 15 bars; otherwise 14 times its
\* result is the sum, over the 14 most recent bars, of
\* max(high - low, |high - prev_close|, |low - prev_close|), prev_close being
\* the close of the bar before; the result is never negative.
C12_AtrWindowGuard ==
    (probe.fn = "atr14" /\ probe.done) =>
        LET b == probe.arg
            n == Len(b)
            tr == [i \in (n - 13)..n |->
                     Max3(b[i].high - b[i].low,
                          Abs(b[i].high - b[i - 1].close),
                          Abs(b[i].low - b[i - 1].close))]
        IN  /\ n < 15 => probe.res = 0
            /\ n >= 15 => probe.res = SumOver(tr, n - 13, n)
            /\ probe.res >= 0

\* _atr14 was applied to 15 bars or more whose seeding bar closes away from
\* the close of the first bar of the window, and returned a positive value
C12_Witness ==
    /\ probe.fn = "atr14" /\ probe.done
    /\ Len(probe.arg) >= 15
    /\ probe.arg[Len(probe.arg) - 14].close # probe.arg[Len(probe.arg) - 13].close
    /\ probe.res > 0

\* C13: a failed poll leaves pos and the market-data task as they were, no
\* poll lets an exception out of _poll_positions, and after a failed poll
\* the engine still runs, so that the poller takes its next turn.
C13_PollFailureContained ==
    [][/\ poll' # "raised"
       /\ poll' = "failed" => phase' = "running"
       /\ (poll' = "failed" /\ poll # "failed") =>
             /\ pos' = pos
             /\ UNCHANGED <<phase, price, bars_1m, last_bar_min, core_stop_id,
                            core_stop_px, legs_required, pc, ti, frame,
                            orders, calls, pass, ev>>]_vars

\* the latest poll failed while the market-data task was suspended in a
\* reconciliation pass, after an earlier poll had reported a position
C13_Witness ==
    /\ poll = "failed"
    /\ pos # 0
    /\ pc = "reconcile"
    /\ phase = "running"

\* the requests issued by the step
NewCalls == [i \in 1..(Len(calls') - Len(calls)) |-> calls'[Len(calls) + i]]

NewOps(op) == SelectSeq(NewCalls, LAMBDA c : c.op = op)

\* the step is the core evaluation: _manage_core resumes from its fetch
CoreEvaluation == pc = "core_fetch" /\ pc' # "core_fetch"

\* the price of the stop tracked when the trail is reached: the cached one,
\* or the one the initial placement of this evaluation has just stored
TrackedAtTrail ==
    IF core_stop_id # None THEN core_stop_px
    ELSE LET placed == SelectSeq(NewOps("submit"), LAMBDA c : c.ok)
         IN  IF placed # <<>> THEN placed[1].price ELSE None

\* C14: a core evaluation issues a modify exactly when at least 15 bars
\* exist, a stop is tracked and the tick-rounded candidate is lower than the
\* tracked price by at least one tick (one tick below included); no other
\* step issues a modify.
C14_TrailAtLeastOneTick ==
    [][/\ CoreEvaluation =>
            (NewOps("modify") # <<>> <=>
                /\ Len(bars_1m) >= 15
                /\ TrackedAtTrail # None
                /\ NewStop(bars_1m) <= TrackedAtTrail - TICK_SIZE)
       /\ NewOps("modify") # <<>> => CoreEvaluation]_vars

\* C14 as amended: a core evaluation issues a modify exactly when at least
\* 15 bars exist, a stop is tracked and the tick-rounded candidate is lower
\* than the tracked price by more than one tick; a candidate exactly one
\* tick below leaves the stop as it is; no other step issues a modify.
C14_TrailMoreThanOneTick ==
    [][/\ CoreEvaluation =>
            (NewOps("modify") # <<>> <=>
                /\ Len(bars_1m) >= 15
                /\ TrackedAtTrail # None
                /\ NewStop(bars_1m) < TrackedAtTrail - TICK_SIZE)
       /\ NewOps("modify") # <<>> => CoreEvaluation]_vars

\* a core evaluation has run with 15 bars, a tracked stop and a candidate
\* exactly one tick below it, and has issued no modify
C14_Witness ==
    /\ pc = "reconcile" /\ frame.tr_name = "core_runner"
    /\ Len(bars_1m) >= 15
    /\ core_stop_id # None
    /\ NewStop(bars_1m) = core_stop_px - TICK_SIZE
    /\ \A i \in DOMAIN calls : calls[i].op # "modify"

\* the id of the stop tracked when the trail is reached
TrackedIdAtTrail ==
    IF core_stop_id # None THEN core_stop_id
    ELSE LET placed == SelectSeq(NewOps("submit"), LAMBDA c : c.ok)
         IN  IF placed # <<>> THEN placed[1].orderId ELSE None

\* the core tranche's pass that follows a successful modify of this tick,
\* the listing having succeeded: no cancel of the stop order, no submit of
\* the stop leg, the cache holds the modified order's id and its new price
TightenedPassKeepsOrder ==
    \A i \in DOMAIN calls :
        (/\ calls[i].op = "modify" /\ calls[i].ok
         /\ pass.valid /\ pass.tr_name = "core_runner" /\ pass.list_ok
         /\ i < pass.from) =>
            /\ \A k \in DOMAIN PassCalls :
                  /\ ~(PassCalls[k].op = "cancel"
                         /\ PassCalls[k].orderId = calls[i].orderId)
                  /\ ~(PassCalls[k].op = "submit" /\ PassCalls[k].leg = "stop")
                  /\ PassCalls[k].op # "modify"
            /\ core_stop_id = calls[i].orderId
            /\ core_stop_px = calls[i].price

\* C15: a core evaluation that tightens issues exactly one modify, on the
\* tracked stop order's id with the candidate price, and after it no cancel
\* and no submit up to the core tranche's pass; _core_stop_id keeps the id;
\* _core_stop_px takes the new price if the modify succeeded and keeps its
\* value if it raised; the pass that follows (the listing showing the
\* modified order) neither cancels nor resubmits the stop.
C15_TightenInPlace ==
    [][/\ (CoreEvaluation /\ NewOps("modify") # <<>>) =>
             LET m == NewOps("modify")[1]
             IN  /\ Len(NewOps("modify")) = 1
                 /\ NewCalls[Len(NewCalls)].op = "modify"
                 /\ NewOps("cancel") = <<>>
                 /\ m.orderId = TrackedIdAtTrail
                 /\ m.price = NewStop(bars_1m)
                 /\ core_stop_id' = TrackedIdAtTrail
                 /\ m.ok => core_stop_px' = m.price
                 /\ ~m.ok => core_stop_px' = TrackedAtTrail
       /\ TightenedPassKeepsOrder']_vars

\* the stop was modified to a price below its initial one and the core
\* tranche's pass has run on a listing that shows it
C15_Witness ==
    /\ pass.valid /\ pass.tr_name = "core_runner" /\ pass.list_ok
    /\ \E i \in DOMAIN calls :
          /\ calls[i].op = "modify" /\ calls[i].ok /\ i < pass.from
          /\ core_stop_id = calls[i].orderId
          /\ \E k \in DOMAIN orders :
                /\ orders[k].orderId = calls[i].orderId
                /\ orders[k].price = calls[i].price

CoreTranche == cfg.tranches[CHOOSE i \in DOMAIN cfg.tranches :
                               cfg.tranches[i].name = "core_runner"]

\* C16: a core evaluation that finds no stop tracked submits a reduce-only
\* STOP order at the tick-rounded initial price if and only if no
\* reduce-only open order sits at that price; after a successful submit the
\* cache holds the new order's id and price; an evaluation that finds a stop
\* tracked submits nothing before its reconciliation pass.
C16_InitialStopPlacement ==
    [][(CoreEvaluation /\ CoreTranche.has_initial) =>
          LET stop_price == RoundToTick(CoreTranche.initial)
              sits == \E k \in DOMAIN orders :
                         orders[k].reduceOnly /\ orders[k].price = stop_price
              subs == NewOps("submit")
          IN  /\ core_stop_id # None => subs = <<>>
              /\ core_stop_id = None =>
                    /\ subs # <<>> <=> ~sits
                    /\ Len(subs) <= 1
                    /\ \A i \in DOMAIN subs :
                          /\ subs[i].price = stop_price
                          /\ subs[i].reduceOnly
                          /\ subs[i].orderType = "STOP"
                          /\ subs[i].quantity = CoreTranche.qty
                          /\ subs[i].ok =>
                                /\ core_stop_id' = subs[i].orderId
                                /\ NewOps("modify") = <<>> =>
                                      core_stop_px' = stop_price]_vars

\* C17: a tranche's manager gets past its entry test only if the tranche
\* is active and |pos| >= its qty at that moment; every request is issued
\* by the manager of such a tranche; the leg ids of a tranche change only in
\* its own pass and the stop cache only in the core tranche's evaluation.
C17_TrancheGating ==
    [][/\ (ti' # ti /\ ti' # 0) =>
             /\ cfg.tranches[ti'].status = "active"
             /\ Abs(pos') >= cfg.tranches[ti'].qty
       /\ (NewCalls # <<>> \/ legs_required' # legs_required
            \/ core_stop_id' # core_stop_id \/ core_stop_px' # core_stop_px) =>
             /\ ti \in DOMAIN cfg.tranches
             /\ cfg.tranches[ti].status = "active"
             /\ pc = "core_fetch" => cfg.tranches[ti].name = "core_runner"
             /\ pc = "reconcile" => cfg.tranches[ti].name = frame.tr_name
             /\ pc \in {"core_fetch", "reconcile"}
             /\ \A t \in DOMAIN legs_required :
                   legs_required'[t] # legs_required[t] =>
                       t = cfg.tranches[ti].name /\ pc = "reconcile"
             /\ (core_stop_id' # core_stop_id \/ core_stop_px' # core_stop_px) =>
                   cfg.tranches[ti].name = "core_runner"]_vars

\* a tick was evaluated to its end with both tranches active and neither
\* entered, orders resting at the broker: no request was issued
C17_Witness ==
    /\ pc = "idle" /\ ev = "done" /\ nticks > 0
    /\ calls = <<>>
    /\ orders # <<>>
    /\ \A i \in DOMAIN cfg.tranches :
          cfg.tranches[i].status = "active" /\ Abs(pos) < cfg.tranches[i].qty

\* C18: a pass lists the open orders once, first; every cancel of the pass
\* precedes every submit of the pass; the cancels are of orders of that
\* listing and the submits are of legs whose price that listing lacks.
C18_CancelBeforeSubmit ==
    pass.valid =>
        /\ PassCalls # <<>>
        /\ PassCalls[1].op = "list"
        /\ \A k \in DOMAIN PassCalls :
              /\ PassCalls[k].op \in {"list", "cancel", "submit"}
              /\ PassCalls[k].op = "list" => k = 1
              /\ PassCalls[k].op = "cancel" =>
                    \E i \in DOMAIN pass.snap :
                        pass.snap[i].orderId = PassCalls[k].orderId
              /\ PassCalls[k].op = "submit" =>
                    \A i \in DOMAIN pass.snap :
                        pass.snap[i].price # PassCalls[k].price
        /\ \A i, j \in DOMAIN PassCalls :
              (PassCalls[i].op = "cancel" /\ PassCalls[j].op = "submit") => i < j

\* a pass has cancelled an order and submitted a leg
C18_Witness ==
    /\ pass.valid /\ pass.list_ok
    /\ PassOps("cancel") # <<>>
    /\ PassOps("submit") # <<>>

\* the step is a reconciliation pass: _reconcile_tranche resumes from its
\* fetch and runs to its end
PassStep == pc = "reconcile" /\ pass' # pass /\ pass'.valid

\* C19: in a pass in which a cancel raised, a cancel is still attempted,
\* once, for every reduce-only order of the fetched snapshot (the
\* price-keyed mapping) whose price is not desired, a submit is attempted,
\* once, for every desired leg whose non-null price the snapshot lacks, and
\* the evaluation goes on after the pass.
C19_FailedCancelDoesNotAbort ==
    [][(PassStep /\ \E k \in DOMAIN NewCalls :
                        NewCalls[k].op = "cancel" /\ ~NewCalls[k].ok) =>
          LET snap == OpenByPx(pass'.snap)
              rogue == {snap[q].orderId :
                          q \in {x \in DOMAIN snap :
                                   /\ snap[x].reduceOnly
                                   /\ \A i \in DOMAIN frame.want_prices :
                                         frame.want_prices[i].px # x}}
              missing == {frame.want_prices[i].leg :
                            i \in {j \in DOMAIN frame.want_prices :
                                      /\ frame.want_prices[j].px # None
                                      /\ frame.want_prices[j].px \notin DOMAIN snap}}
              cancels == NewOps("cancel")
              submits == NewOps("submit")
          IN  /\ {cancels[i].orderId : i \in DOMAIN cancels} = rogue
              /\ Len(cancels) = Cardinality(rogue)
              /\ {submits[i].leg : i \in DOMAIN submits} = missing
              /\ Len(submits) = Cardinality(missing)
              /\ ev' \in {"running", "done"}]_vars

\* a pass whose first cancel raised went on to cancel another order and to
\* submit a leg
C19_Witness ==
    /\ pass.valid /\ pass.list_ok
    /\ \E i, j, k \in DOMAIN PassCalls :
          /\ i < j /\ j < k
          /\ PassCalls[i].op = "cancel" /\ ~PassCalls[i].ok
          /\ PassCalls[j].op = "cancel" /\ PassCalls[j].ok
          /\ PassCalls[k].op = "submit" /\ PassCalls[k].ok

\* C20: in a pass, a leg whose submit returned an id has that id cached
\* under it, and if it is the stop leg of core_runner the stop cache holds
\* that id and the leg's price; a leg whose submit raised, or that was not
\* submitted, keeps its cached id; without a successful submit of the core
\* stop leg the stop cache keeps its values; a submit that raised does not
\* keep the other missing legs from being attempted.
C20_CacheOnlyOnSuccess ==
    [][PassStep =>
          LET tr == frame.tr_name
              want == frame.want_prices
              snap == OpenByPx(pass'.snap)
              submits == NewOps("submit")
              Of(l) == SelectSeq(submits, LAMBDA c : c.leg = l)
              core_stop == SelectSeq(submits, LAMBDA c :
                              tr = "core_runner" /\ c.leg = "stop" /\ c.ok)
          IN  /\ \A l \in DOMAIN legs_required[tr] :
                    /\ Len(Of(l)) <= 1
                    /\ (Of(l) # <<>> /\ Of(l)[1].ok) =>
                          legs_required'[tr][l] = Of(l)[1].orderId
                    /\ (Of(l) = <<>> \/ ~Of(l)[1].ok) =>
                          legs_required'[tr][l] = legs_required[tr][l]
              /\ \A t \in DOMAIN legs_required :
                    t # tr => legs_required'[t] = legs_required[t]
              /\ core_stop # <<>> =>
                    /\ core_stop_id' = core_stop[1].orderId
                    /\ core_stop_px' = core_stop[1].price
              /\ core_stop = <<>> =>
                    UNCHANGED <<core_stop_id, core_stop_px>>
              /\ \A i \in DOMAIN want :
                    (want[i].px # None /\ want[i].px \notin DOMAIN snap) =>
                        Of(want[i].leg) # <<>>]_vars

\* in a pass the submit of one leg raised and the submit of a later leg
\* went through and is cached, the leg that failed having no id cached
C20_Witness ==
    /\ pass.valid
    /\ \E i, j \in DOMAIN PassCalls :
          /\ i < j
          /\ PassCalls[i].op = "submit" /\ ~PassCalls[i].ok
          /\ PassCalls[j].op = "submit" /\ PassCalls[j].ok
          /\ legs_required[pass.tr_name][PassCalls[j].leg] = PassCalls[j].orderId
          /\ legs_required[pass.tr_name][PassCalls[i].leg] = None

\* C21: every order a pass submits is reduce-only and is a LIMIT order
\* exactly when the side is BUY and the leg price is below the last price,
\* or the side is SELL and the leg price is above it; it is a STOP order
\* otherwise, a leg at the last price included.
C21_OrderTypeSelection ==
    [][PassStep =>
          \A k \in DOMAIN NewCalls :
              NewCalls[k].op = "submit" =>
                  /\ NewCalls[k].reduceOnly
                  /\ NewCalls[k].orderType \in {"LIMIT", "STOP"}
                  /\ NewCalls[k].orderType = "LIMIT" <=>
                        \/ frame.side = "BUY" /\ NewCalls[k].price < price
                        \/ frame.side = "SELL" /\ NewCalls[k].price > price
                  /\ NewCalls[k].price = price => NewCalls[k].orderType = "STOP"]_vars

\* a pass has submitted a leg at the last price as a STOP order, a leg below
\* it as a LIMIT order and a leg above it as a STOP order
C21_Witness ==
    /\ pass.valid
    /\ \E i, j, k \in DOMAIN PassCalls :
          /\ PassCalls[i].op = "submit" /\ PassCalls[i].price = price
          /\ PassCalls[i].orderType = "STOP"
          /\ PassCalls[j].op = "submit" /\ PassCalls[j].price < price
          /\ PassCalls[j].orderType = "LIMIT"
          /\ PassCalls[k].op = "submit" /\ PassCalls[k].price > price
          /\ PassCalls[k].orderType = "STOP"

RECURSIVE SeqMax(_, _)
SeqMax(s, i) == IF i = Len(s) THEN s[i] ELSE Max2(s[i], SeqMax(s, i + 1))

RECURSIVE SeqMin(_, _)
SeqMin(s, i) == IF i = Len(s) THEN s[i] ELSE Min2(s[i], SeqMin(s, i + 1))

\* C22: every bar of the window has low <= close <= high; the newest bar's
\* high, low and close are the maximum, the minimum and the last of the
\* prices of the ticks received since it was opened; the first tick ever
\* opens a bar with high = low = close = price.
C22_BarAggregation ==
    /\ \A i \in DOMAIN bars_1m :
          bars_1m[i].low <= bars_1m[i].close /\ bars_1m[i].close <= bars_1m[i].high
    /\ probe.fn = "update_buffers" =>
          /\ bars_1m # <<>>
          /\ bars_1m[Len(bars_1m)].high = SeqMax(probe.res, 1)
          /\ bars_1m[Len(bars_1m)].low = SeqMin(probe.res, 1)
          /\ bars_1m[Len(bars_1m)].close = probe.res[Len(probe.res)]
    /\ nticks = 1 => bars_1m = <<Bar(price)>>

\* three ticks of one minute have left the newest bar, which is not the
\* only one, with its close strictly between its low and its high
C22_Witness ==
    /\ probe.fn = "update_buffers"
    /\ Len(probe.res) >= 3
    /\ Len(bars_1m) > 1
    /\ bars_1m[Len(bars_1m)].low < bars_1m[Len(bars_1m)].close
    /\ bars_1m[Len(bars_1m)].close < bars_1m[Len(bars_1m)].high

\* the last n elements of s
LastN(s, n) == IF Len(s) <= n THEN s ELSE SubSeq(s, Len(s) - n + 1, Len(s))

\* C23: a tick arriving k >= 1 minutes after the last bar's minute appends
\* exactly k bars with high = low = close = the tick's price and sets the
\* last bar minute to the tick's minute (minute 0 of the clock counted from
\* that tick); the window never holds more than 15 bars, the oldest bars
\* leaving first.
C23_WindowRollAndBound ==
    [][/\ Len(bars_1m') <= 15
       /\ (nticks' = nticks + 1 /\ last_bar_min # None /\ probe'.arg >= 1) =>
             /\ bars_1m' = LastN(bars_1m \o [i \in 1..probe'.arg |-> Bar(price')], 15)
             /\ last_bar_min' = 0]_vars

\* a full window has rolled by one minute: the oldest bar has left, the bars
\* of the earlier tick have moved down and one bar of the new price was added
C23_Witness ==
    /\ nticks >= 3
    /\ probe.fn = "update_buffers" /\ probe.arg = 1
    /\ Len(bars_1m) = 15
    /\ bars_1m[15] = Bar(price)
    /\ bars_1m[14].close # price
    /\ bars_1m[1] = bars_1m[14]

\* the engine's own state
EngineState ==
    <<phase, cfg, pos, price, bars_1m, last_bar_min, core_stop_id,
      core_stop_px, legs_required, pc, ti, frame, orders>>

\* C24: messages are read in delivery order; a message is read only when
\* no evaluation is in progress, so an evaluation never runs beside
\* another one; a ticker message sets the last price to its last-trade
\* price, feeds the bar aggregator and starts the evaluation in the same
\* step; a message of another type changes no state; the steps of an
\* evaluation read no message.
C24_TickProcessingOrder ==
    [][/\ probe'.res.nread # probe.res.nread =>
             /\ pc = "idle"
             /\ probe.res.inbox # <<>>
             /\ probe'.res.inbox = Tail(probe.res.inbox)
             /\ probe'.res.nread = probe.res.nread + 1
             /\ Head(probe.res.inbox).type = "ticker" =>
                   /\ price' = Head(probe.res.inbox).last
                   /\ bars_1m' # <<>>
                   /\ bars_1m'[Len(bars_1m')].close = price'
                   /\ last_bar_min' = 0
                   /\ ev' \in {"running", "done", "guard", "raised_config"}
                   /\ ev' = "running" <=> pc' # "idle"
             /\ Head(probe.res.inbox).type # "ticker" =>
                   /\ EngineState' = EngineState
                   /\ ev' = ev
       /\ (probe'.res.inbox # probe.res.inbox /\ probe'.res.nread = probe.res.nread) =>
             \/ probe'.res.inbox = <<>>
             \/ \E m \in MsgSet : probe'.res.inbox = Append(probe.res.inbox, m)
       /\ pc # "idle" =>
             /\ probe'.res.nread = probe.res.nread
             /\ price' = price /\ bars_1m' = bars_1m]_vars

\* two ticker messages of one minute have been read, the tick at 8 before
\* the tick at 16, and the evaluation of the second one is in progress
C24_Witness ==
    /\ probe.fn = "stream"
    /\ probe.res.nread = 2
    /\ nticks = 2
    /\ bars_1m = <<[high |-> 16, low |-> 8, close |-> 16]>>
    /\ price = 16
    /\ pc = "reconcile"

\* C25: one cancel and one submit of a reconciliation pass are each sent to
\* the order endpoint at most once, whatever the endpoint answers, and no
\* pause is taken to send again.
C25_NoInPassRetry ==
    (probe.fn \in {"submit_order", "cancel_order"} /\ probe.done) =>
        probe.res.sends <= 1 /\ probe.res.slept = 0

\* the submit, cancel and modify requests of a step
NewOrderRequests ==
    SelectSeq(NewCalls, LAMBDA c : c.op \in {"submit", "cancel", "modify"})

\* C26 as stated: no submit, cancel or modify is issued at a moment when
\* |pos| > position_limit, the poller having run at any suspension point.
C26_NoRequestAboveLimit ==
    [][NewOrderRequests # <<>> => Abs(pos) <= cfg.position_limit]_vars

\* C26 amended: the guard is taken once, when the evaluation is entered:
\* an evaluation gets to a suspension point only if |pos| <= position_limit
\* at the tick that started it, every request is issued by a step of such an
\* evaluation, and a change of the position at a suspension point does not
\* end the evaluation in progress.
C26_GuardAtEvaluationStart ==
    [][/\ (nticks' # nticks /\ pc' # "idle") => Abs(pos) <= cfg.position_limit
       /\ NewCalls # <<>> => (pc # "idle" /\ nticks' = nticks)
       /\ pos' # pos => UNCHANGED <<pc, ti, frame, calls, orders>>]_vars

\* the poller has put the position above the limit while an evaluation
\* that passed the guard waits for its open-order listing
C26_Witness ==
    /\ pc \in {"core_fetch", "reconcile"}
    /\ ev = "running"
    /\ poll = "ok"
    /\ Abs(pos) > cfg.position_limit

\* a reduce-only order sits in the book at the core tranche's initial stop
\* price
StopAtInitial(book) ==
    \E k \in DOMAIN book :
        book[k].reduceOnly /\ book[k].price = RoundToTick(CoreTranche.initial)

\* C27: when a core evaluation runs with no stop tracked while the broker
\* lists a reduce-only order at the initial stop price, a reduce-only order
\* at that price is still open at the broker when the evaluation's pass has
\* ended.
C27_RestartKeepsStop ==
    (/\ pass.valid
     /\ pass.tr_name = "core_runner"
     /\ \E i \in DOMAIN pass.want_prices :
           pass.want_prices[i].leg = "stop" /\ pass.want_prices[i].px = None
     /\ StopAtInitial(pass.snap))
        => StopAtInitial(pass.after)

\* the rows of the contract that no row of the contract precedes
FirstMatches(rows) ==
    {i \in DOMAIN rows : rows[i].match /\ \A j \in 1..(i - 1) : ~rows[j].match}

\* C28: after a successful poll the position is the qty of the first row of
\* the contract, whatever the rows after it say; when no row is of the
\* contract the position keeps its previous value.
C28_PositionFromFirstMatch ==
    (probe.fn = "poll_positions" /\ probe.done /\ probe.res.ev = "ok") =>
        LET rows == probe.arg.rows
        IN  /\ \A i \in FirstMatches(rows) : probe.res.pos = rows[i].qty
            /\ FirstMatches(rows) = {} => probe.res.pos = probe.arg.pos

\* a report with a foreign row, then two rows of the contract with
\* different quantities: the position has moved to the first one's
C28_Witness ==
    /\ probe.fn = "poll_positions" /\ probe.done /\ probe.res.ev = "ok"
    /\ Len(probe.arg.rows) = 3
    /\ ~probe.arg.rows[1].match
    /\ probe.arg.rows[2].match /\ probe.arg.rows[3].match
    /\ probe.arg.rows[3].qty \notin {None, probe.arg.rows[2].qty}
    /\ probe.res.pos = probe.arg.rows[2].qty
    /\ probe.res.pos # probe.arg.pos

\* C29: whenever the core tranche issues a modify, the id it names is the
\* cached _core_stop_id and identifies an order open at the broker at the
\* price _core_stop_px at that moment: the order tracked when the
\* evaluation resumed, still resting at the tracked price, or the initial
\* stop the same evaluation has just placed.
C29_CachedStopIsLive ==
    [][CoreEvaluation =>
          \A m \in DOMAIN NewCalls :
              NewCalls[m].op = "modify" =>
                  \/ /\ NewCalls[m].orderId = core_stop_id
                     /\ \E k \in DOMAIN orders :
                           /\ orders[k].orderId = core_stop_id
                           /\ orders[k].price = core_stop_px
                  \/ /\ core_stop_id = None
                     /\ \E j \in 1..(m - 1) :
                           /\ NewCalls[j].op = "submit" /\ NewCalls[j].ok
                           /\ NewCalls[j].orderId = NewCalls[m].orderId]_vars

\* C30: for every set of positions the call of get_portfolio_summary ends
\* by returning a summary: the chain of calls it makes is finite and never
\* exhausts the call stack.
C30_SummaryReturns ==
    (probe.fn = "get_portfolio_summary" /\ probe.done) =>
        probe.res.out = "summary"

====
